---- MODULE Spec2Model ----
(***************************************************************************)
(* A model of src/prquadtree.py: Point, Box and PRQuadTree (insert,        *)
(* query_range, query_k_nearest, _subdivide).                              *)
(*                                                                         *)
(* Numbers.  The program computes with Python floats.  Every number that   *)
(* occurs here is a dyadic rational k / Scale, held as the integer k; all  *)
(* arguments of the operations are whole numbers (multiples of Scale), and *)
(* Scale = 2^MaxInserts leaves one exact halving for every level a tree of *)
(* at most MaxInserts points can have, so every sum, difference and        *)
(* halving below is exact, as it is in binary floating point for numbers   *)
(* of this size.                                                           *)
(*                                                                         *)
(* The tree.  A PRQuadTree object is addressed by the path of attribute    *)
(* names (nw, ne, sw, se) leading to it from the root; tree maps each path *)
(* of an existing node to its box and points.  An attribute that is None   *)
(* is a path outside DOMAIN tree.                                          *)
(***************************************************************************)
EXTENDS Integers, Sequences, FiniteSets, TLC

\* The number of insert calls made on one tree.
MaxInserts == 3
\* The largest k handed to query_k_nearest.
MaxK == 4

Scale == 2 ^ MaxInserts

\* float(v) of a whole number v, in units of 1 / Scale.
float(v) == v * Scale

VARIABLES tree, inserted, op, arg, ret, rng, res, nearby, tried

vars == <<tree, inserted, op, arg, ret, rng, res, nearby, tried>>

----------------------------------------------------------------------------
(* Point and Box *)

Point(x, y) == [x |-> float(x), y |-> float(y)]

\* Box.__init__ stores what it is given; it rejects no half_size.
Box(center, half_size) == [center |-> center, half_size |-> float(half_size)]

\* Mutant: the four comparisons made strict (the box without its boundary).
contains_point_open(box, point) ==
    LET left_bound   == box.center.x - box.half_size
        right_bound  == box.center.x + box.half_size
        bottom_bound == box.center.y - box.half_size
        top_bound    == box.center.y + box.half_size
    IN  /\ point.x > left_bound
        /\ point.x < right_bound
        /\ point.y > bottom_bound
        /\ point.y < top_bound

\* Mutant: the comparison with top_bound left out.
contains_point_notop(box, point) ==
    LET left_bound   == box.center.x - box.half_size
        right_bound  == box.center.x + box.half_size
        bottom_bound == box.center.y - box.half_size
    IN  /\ point.x >= left_bound
        /\ point.x <= right_bound
        /\ point.y >= bottom_bound

contains_point(box, point) ==
    LET left_bound   == box.center.x - box.half_size
        right_bound  == box.center.x + box.half_size
        bottom_bound == box.center.y - box.half_size
        top_bound    == box.center.y + box.half_size
    IN  /\ point.x >= left_bound
        /\ point.x <= right_bound
        /\ point.y >= bottom_bound
        /\ point.y <= top_bound

intersect(box, other_box) ==
    LET aX1 == box.center.x - box.half_size
        aY1 == box.center.y - box.half_size
        aX2 == box.center.x + box.half_size
        aY2 == box.center.y + box.half_size
        bX1 == other_box.center.x - other_box.half_size
        bY1 == other_box.center.y - other_box.half_size
        bX2 == other_box.center.x + other_box.half_size
        bY2 == other_box.center.y + other_box.half_size
    IN  aX1 < bX2 /\ aX2 > bX1 /\ aY1 < bY2 /\ aY2 > bY1

----------------------------------------------------------------------------
(* PRQuadTree *)

\* Mutant: a node that keeps a second point.
QT_NODE_CAPACITY_two == 1 + 1

QT_NODE_CAPACITY == 1

\* The attributes holding the four children, in the order insert and
\* query_range go through them.
Children == <<"nw", "ne", "sw", "se">>

\* PRQuadTree.__init__: a node with its box, no points and no children.
PRQuadTree(box) == [box |-> box, points |-> <<>>]

IsPrefix(n, m) == Len(n) <= Len(m) /\ SubSeq(m, 1, Len(n)) = n

\* Mutant: the children overlap (half the parent's half-size apart, but
\* each as large as three quarters of the parent).
child_box_wide(box, c) ==
    LET hs == box.half_size \div 2
        cx == IF c \in {"nw", "sw"} THEN box.center.x - hs ELSE box.center.x + hs
        cy == IF c \in {"nw", "ne"} THEN box.center.y + hs ELSE box.center.y - hs
    IN  [center |-> [x |-> cx, y |-> cy], half_size |-> hs + hs \div 2]

\* The box _subdivide gives child c: half the half-size, the centre moved
\* by it to the left for nw and sw, up for nw and ne.
child_box(box, c) ==
    LET hs == box.half_size \div 2
        cx == IF c \in {"nw", "sw"} THEN box.center.x - hs ELSE box.center.x + hs
        cy == IF c \in {"nw", "ne"} THEN box.center.y + hs ELSE box.center.y - hs
    IN  [center |-> [x |-> cx, y |-> cy], half_size |-> hs]

\* _subdivide assigns four new nodes to self.nw, self.ne, self.sw, self.se;
\* whatever these attributes held before is no longer part of the tree.
_subdivide(t, n) ==
    LET new  == {n \o <<Children[i]>> : i \in 1..4}
        kept == {m \in DOMAIN t : \A c \in new : ~IsPrefix(c, m)}
    IN  [m \in kept \cup new |->
            IF m \in new THEN PRQuadTree(child_box(t[n].box, m[Len(m)]))
            ELSE t[m]]

\* Mutant: the test for a leaf always answers yes.
is_leaf_always(t, n) == TRUE

\* self.nw == None
is_leaf(t, n) == (n \o <<"nw">>) \notin DOMAIN t

\* insert on the node at path n; the result is the tree afterwards and the
\* value returned: "True", "False", or "None" when the call runs off its end.
RECURSIVE insert(_, _, _)
insert(t, n, point) ==
    IF ~contains_point(t[n].box, point)
    THEN [tree |-> t, ret |-> "False"]
    ELSE IF Len(t[n].points) < QT_NODE_CAPACITY
    THEN [tree |-> [t EXCEPT ![n].points = Append(@, point)], ret |-> "True"]
    ELSE LET t0 == IF is_leaf(t, n) THEN _subdivide(t, n) ELSE t
             a  == insert(t0, n \o <<"nw">>, point)
             b  == insert(a.tree, n \o <<"ne">>, point)
             c  == insert(b.tree, n \o <<"sw">>, point)
             d  == insert(c.tree, n \o <<"se">>, point)
         IN  IF a.ret = "True" THEN a
             ELSE IF b.ret = "True" THEN b
             ELSE IF c.ret = "True" THEN c
             ELSE IF d.ret = "True" THEN d
             ELSE [tree |-> d.tree, ret |-> "None"]

\* The points of a list that lie in rng, in the list's order.
RECURSIVE in_range(_, _)
in_range(points, r) ==
    IF points = <<>> THEN <<>>
    ELSE (IF contains_point(r, Head(points)) THEN <<Head(points)>> ELSE <<>>)
         \o in_range(Tail(points), r)

RECURSIVE query_range(_, _, _)
query_range(t, n, r) ==
    IF ~intersect(t[n].box, r) THEN <<>>
    ELSE LET final_points == in_range(t[n].points, r)
         IN  IF is_leaf(t, n) THEN final_points
             ELSE final_points
                  \o query_range(t, n \o <<"nw">>, r)
                  \o query_range(t, n \o <<"ne">>, r)
                  \o query_range(t, n \o <<"sw">>, r)
                  \o query_range(t, n \o <<"se">>, r)

\* _sort_key: sqrt(dx^2 + dy^2).  The square root is increasing and, for the
\* whole numbers compared here, one to one, so the key is held as the exact
\* value of dx^2 + dy^2 in whole units, written in base KeyBase as three
\* digits <<c2, c1, c0>> (dx^2 + dy^2 = c2 * KeyBase^2 + c1 * KeyBase + c0),
\* most significant first: the widest window reaches 2^19 units, whose
\* square does not fit one machine integer of the model checker.
KeyBase == 2 ^ 10

Abs(v) == IF v < 0 THEN -v ELSE v

_sort_key(point, p) ==
    LET dx == Abs(point.x - p.x) \div Scale
        dy == Abs(p.y - point.y) \div Scale
        xh == dx \div KeyBase
        xl == dx % KeyBase
        yh == dy \div KeyBase
        yl == dy % KeyBase
        c0 == xl * xl + yl * yl
        c1 == 2 * (xh * xl + yh * yl) + c0 \div KeyBase
        c2 == xh * xh + yh * yh + c1 \div KeyBase
    IN  <<c2, c1 % KeyBase, c0 % KeyBase>>

\* key1 < key2
key_less(k1, k2) ==
    \/ k1[1] < k2[1]
    \/ k1[1] = k2[1] /\ k1[2] < k2[2]
    \/ k1[1] = k2[1] /\ k1[2] = k2[2] /\ k1[3] < k2[3]

\* sorted(nearby, key=_sort_key): ascending in the key, and stable (points of
\* equal key keep the order they have in nearby).
RECURSIVE place(_, _, _)
place(point, s, p) ==
    IF s = <<>> THEN <<p>>
    ELSE IF key_less(_sort_key(point, p), _sort_key(point, Head(s)))
    THEN <<p>> \o s
    ELSE <<Head(s)>> \o place(point, Tail(s), p)

RECURSIVE sorted(_, _)
sorted(point, s) ==
    IF s = <<>> THEN <<>>
    ELSE place(point, sorted(point, SubSeq(s, 1, Len(s) - 1)), s[Len(s)])

\* s[:k]
slice(s, k) ==
    IF k >= 0 THEN SubSeq(s, 1, IF k < Len(s) THEN k ELSE Len(s))
    ELSE SubSeq(s, 1, Len(s) + k)

\* range(1, 20) ends with 19.
LastExponent == 19

\* The loop of query_k_nearest from exponent i on: the window Box(point, 2^i)
\* is queried, and the loop ends when it gives at least k points or i is
\* the last exponent.  The result names the last exponent tried.
RECURSIVE widen(_, _, _, _)
widen(t, point, k, i) ==
    LET window == [center |-> point, half_size |-> float(2 ^ i)]
        found  == query_range(t, <<>>, window)
    IN  IF Len(found) >= k \/ i = LastExponent
        THEN [nearby |-> found, tried |-> i, rng |-> window]
        ELSE widen(t, point, k, i + 1)

query_k_nearest(t, point, k) ==
    LET w == widen(t, point, k, 1)
    IN  [res |-> slice(sorted(point, w.nearby), k), nearby |-> w.nearby,
         tried |-> w.tried, rng |-> w.rng]

----------------------------------------------------------------------------
(* The arguments the operations are called with, in whole units. *)

\* Boxes a tree is built on: two squares, and the two kinds of box that
\* Box.__init__ accepts although no square has such a half-size.
RootBoxes ==
    { Box(Point(0, 0), 8), Box(Point(1, 1), 3),
      Box(Point(0, 0), 0), Box(Point(0, 0), -1) }

InsertPoints ==
    { Point(0, 0), Point(4, 4), Point(5, 0), Point(0, 2), Point(8, 0),
      Point(-8, 0), Point(-3, -3), Point(-8, -8), Point(0, 9) }

RangeBoxes ==
    RootBoxes \cup
    { Box(Point(1, 2), 1), Box(Point(9, 0), 1), Box(Point(4, 4), 1),
      Box(Point(-5, -5), 3), Box(Point(20, 20), 1) }

\* The trees and the points of the nearest-neighbour runs.
NearestRootBoxes == { Box(Point(0, 0), 8) }

NearestPoints ==
    { Point(0, 0), Point(4, 4), Point(5, 0), Point(-8, 0), Point(-8, -8) }

QueryPoints == { Point(0, 0), Point(4, 4) }

\* The same, and a point 2^19 to the left of the left edge of the root box.
FarQueryPoints == QueryPoints \cup { Point(-8 - 2 ^ LastExponent, 0) }

----------------------------------------------------------------------------
(* The state machine: a tree is built, then insert, query_range and        *)
(* query_k_nearest are called on its root in any order.  inserted lists    *)
(* the points handed to insert so far.  The other variables record the     *)
(* last call: op its name, arg its arguments, ret the value insert         *)
(* returned, rng the range box the last range query was made with (a list  *)
(* of one box, empty when the call made none), res the list a query        *)
(* returned, nearby the list the last window of query_k_nearest gave and   *)
(* tried that window's exponent.                                           *)

NoArg == [point |-> Point(0, 0), k |-> 0]

Fresh(boxes) ==
    /\ \E box \in boxes : tree = (<<>> :> PRQuadTree(box))
    /\ inserted = <<>>
    /\ op = "init"
    /\ arg = NoArg
    /\ ret = "None"
    /\ rng = <<>>
    /\ res = <<>>
    /\ nearby = <<>>
    /\ tried = 0

Init == Fresh(RootBoxes)

InitNearest == Fresh(NearestRootBoxes)

Insert(point) ==
    /\ Len(inserted) < MaxInserts
    /\ LET r == insert(tree, <<>>, point)
       IN  /\ tree' = r.tree
           /\ ret' = r.ret
    /\ inserted' = Append(inserted, point)
    /\ op' = "insert"
    /\ arg' = [point |-> point, k |-> 0]
    /\ rng' = <<>>
    /\ res' = <<>>
    /\ nearby' = <<>>
    /\ tried' = 0

QueryRange(r) ==
    /\ op' = "query_range"
    /\ rng' = <<r>>
    /\ res' = query_range(tree, <<>>, r)
    /\ arg' = NoArg
    /\ ret' = "None"
    /\ nearby' = <<>>
    /\ tried' = 0
    /\ UNCHANGED <<tree, inserted>>

QueryKNearest(point, k) ==
    /\ LET q == query_k_nearest(tree, point, k)
       IN  /\ res' = q.res
           /\ nearby' = q.nearby
           /\ tried' = q.tried
           /\ rng' = <<q.rng>>
    /\ op' = "query_k_nearest"
    /\ arg' = [point |-> point, k |-> k]
    /\ ret' = "None"
    /\ UNCHANGED <<tree, inserted>>

\* Inserts alone.
Next == \E point \in InsertPoints : Insert(point)

Spec == Init /\ [][Next]_vars

\* Inserts and range queries.
NextRange ==
    \/ \E point \in InsertPoints : Insert(point)
    \/ \E r \in RangeBoxes : QueryRange(r)

SpecRange == Init /\ [][NextRange]_vars

\* The same on squares alone: every tree bound and every range box has a
\* positive half-size.
Squares(boxes) == {b \in boxes : b.half_size > 0}

InitSquare == Fresh(Squares(RootBoxes))

NextSquareRange ==
    \/ \E point \in InsertPoints : Insert(point)
    \/ \E r \in Squares(RangeBoxes) : QueryRange(r)

SpecSquareRange == InitSquare /\ [][NextSquareRange]_vars

\* Inserts and nearest-neighbour queries.
NextNearest ==
    \/ \E point \in NearestPoints : Insert(point)
    \/ \E point \in QueryPoints, k \in 0..MaxK : QueryKNearest(point, k)

SpecNearest == InitNearest /\ [][NextNearest]_vars

\* The same with the far query point.
NextFarNearest ==
    \/ \E point \in NearestPoints : Insert(point)
    \/ \E point \in FarQueryPoints, k \in 0..MaxK : QueryKNearest(point, k)

SpecFarNearest == InitNearest /\ [][NextFarNearest]_vars

----------------------------------------------------------------------------
(* What the claims speak of, stated without the program's own predicates.  *)

ToSet(s) == {s[i] : i \in 1..Len(s)}

\* The number of times p occurs in the list s.
CountIn(s, p) == Cardinality({i \in 1..Len(s) : s[i] = p})

\* p lies in the closed square b.
Inside(b, p) ==
    /\ b.center.x - b.half_size <= p.x /\ p.x <= b.center.x + b.half_size
    /\ b.center.y - b.half_size <= p.y /\ p.y <= b.center.y + b.half_size

\* p lies in the interior of the square b.
StrictlyInside(b, p) ==
    /\ b.center.x - b.half_size < p.x /\ p.x < b.center.x + b.half_size
    /\ b.center.y - b.half_size < p.y /\ p.y < b.center.y + b.half_size

\* The places of t where a point is stored, the points stored, and the
\* number of places that hold p.
Slots(t) == UNION {{<<n, i>> : i \in 1..Len(t[n].points)} : n \in DOMAIN t}

StoredSet(t) == {t[sl[1]].points[sl[2]] : sl \in Slots(t)}

Occurrences(t, p) == Cardinality({sl \in Slots(t) : t[sl[1]].points[sl[2]] = p})

RootBox == tree[<<>>].box

ChildPaths(n) == {n \o <<Children[i]>> : i \in 1..4}

Subdivided(t) == {n \in DOMAIN t : ChildPaths(n) \subseteq DOMAIN t}

\* The points of a list that lie in the root box, in the list's order.
RECURSIVE Accepted(_)
Accepted(s) ==
    IF s = <<>> THEN <<>>
    ELSE (IF Inside(RootBox, Head(s)) THEN <<Head(s)>> ELSE <<>>) \o Accepted(Tail(s))

----------------------------------------------------------------------------
(* The claims *)

\* C1: after inserting pairwise distinct points that all lie in the root box
\* into a fresh tree, query_range with the root box as the range returns
\* exactly the inserted points, as a set.
C1_InsertThenFind ==
    ( /\ op = "query_range"
      /\ rng = <<RootBox>>
      /\ \A i \in 1..Len(inserted) : Inside(RootBox, inserted[i])
      /\ \A i, j \in 1..Len(inserted) : i # j => inserted[i] # inserted[j] )
    => ToSet(res) = ToSet(inserted)

\* C2: query_range returns every stored point that lies in the closed range
\* box, and nothing that is not stored or not in the range box.
C2_RangeComplete ==
    op = "query_range" =>
        ToSet(res) = {p \in StoredSet(tree) : Inside(rng[1], p)}

C4_NoInvalidBox ==
    /\ \A n \in DOMAIN tree : tree[n].box.half_size > 0
    /\ \A i \in 1..Len(rng) : rng[i].half_size > 0

\* C5: when the tree stores at least k >= 1 points, query_k_nearest returns k
\* stored points, and no stored point left out of the result is strictly
\* closer to the query point than a returned one.
C5_NearestExact ==
    ( /\ op = "query_k_nearest"
      /\ arg.k >= 1
      /\ Cardinality(Slots(tree)) >= arg.k )
    => /\ Len(res) = arg.k
       /\ \A p \in ToSet(res) : CountIn(res, p) <= Occurrences(tree, p)
       /\ \A p \in StoredSet(tree) :
            CountIn(res, p) < Occurrences(tree, p) =>
                \A i \in 1..Len(res) :
                    ~key_less(_sort_key(arg.point, p), _sort_key(arg.point, res[i]))

\* The window of exponent i about the point q.
Window(q, i) == [center |-> q, half_size |-> (2 ^ i) * Scale]

\* C6, the windows and the shape of the result: the windows of half-size 2^i
\* are tried for i = 1, 2, ... and the first that gives at least k points (or
\* the one of exponent 19) is the last; the result is in ascending distance
\* and has min(k, number of points of the last window) points.
NearestShape ==
    op = "query_k_nearest" =>
        /\ tried \in 1..19
        /\ rng = <<Window(arg.point, tried)>>
        /\ Len(nearby) >= arg.k \/ tried = 19
        /\ \A i \in 1..(tried - 1) :
              Len(query_range(tree, <<>>, Window(arg.point, i))) < arg.k
        /\ \A i, j \in 1..Len(res) :
              i < j => ~key_less(_sort_key(arg.point, res[j]), _sort_key(arg.point, res[i]))
        /\ Len(res) = (IF arg.k < Len(nearby) THEN arg.k ELSE Len(nearby))
        /\ \A p \in ToSet(res) : CountIn(res, p) <= CountIn(nearby, p)

\* C6, asking for more than is stored: when k exceeds the number of stored
\* points and they all lie in the largest window, all of them are returned.
NearestUndersupply ==
    ( /\ op = "query_k_nearest"
      /\ arg.k > Cardinality(Slots(tree))
      /\ \A p \in StoredSet(tree) : Inside(Window(arg.point, 19), p) )
    => \A p \in StoredSet(tree) : CountIn(res, p) = Occurrences(tree, p)

\* C6: query_k_nearest tries the windows of half-size 2^i, i = 1..19, in
\* increasing order and stops at the first that gives at least k points; the
\* result is sorted by distance and has min(k, points of the last window)
\* points, so asking for more points than are stored returns all stored
\* points that lie within the largest window.
C6_NearestShape == NearestShape /\ NearestUndersupply

\* C7: every point stored in a node or in one of its descendants lies in
\* that node's closed box.
C7_Containment ==
    \A n \in DOMAIN tree, m \in DOMAIN tree :
        IsPrefix(n, m) =>
            \A i \in 1..Len(tree[m].points) : Inside(tree[n].box, tree[m].points[i])

\* C7 witness: a point stored two levels below the root.
C7_Witness == \E m \in DOMAIN tree : Len(m) = 2 /\ tree[m].points # <<>>

\* Every node holds at most one point and has no child or all four, and
\* every node but the root is the child of a node.
ShapeOK(t) ==
    \A n \in DOMAIN t :
        /\ Len(t[n].points) <= 1
        /\ ChildPaths(n) \cap DOMAIN t \in {{}, ChildPaths(n)}
        /\ n # <<>> => /\ SubSeq(n, 1, Len(n) - 1) \in DOMAIN t
                       /\ n[Len(n)] \in {"nw", "ne", "sw", "se"}

\* C8: in every state every node stores at most one point and has no
\* children or exactly four; a node stays where it is with its box and the
\* points it holds (it never goes back to being a leaf, its children are
\* never replaced by new ones).
C8_NodeShape ==
    /\ ShapeOK(tree)
    /\ [][ /\ ShapeOK(tree')
           /\ \A n \in DOMAIN tree :
                /\ n \in DOMAIN tree'
                /\ tree'[n].box = tree[n].box
                /\ Len(tree[n].points) <= Len(tree'[n].points)
                /\ SubSeq(tree'[n].points, 1, Len(tree[n].points)) = tree[n].points
         ]_vars

\* C8 witness: the same point inserted three times, which subdivides the
\* root and then one of its children.
C8_Witness ==
    /\ Len(inserted) = 3
    /\ inserted[1] = inserted[2] /\ inserted[2] = inserted[3]
    /\ Cardinality(DOMAIN tree) = 9
    /\ Cardinality(Slots(tree)) = 3

Probes == InsertPoints \cup {tree[n].box.center : n \in DOMAIN tree}

\* The children of n whose box holds p.
Holding(n, p) == {c \in ChildPaths(n) : Inside(tree[c].box, p)}

====
